---- MODULE Spec2Model ----
(***************************************************************************)
(* Lighthouse CLI runner: the multi-URL batch runner (URL set builder,     *)
(* browser session, per-URL auditor invocation, chunked batch loop,        *)
(* summary) and the single-URL runner.  Strings are sequences of           *)
(* one-character strings.                                                  *)
(***************************************************************************)
EXTENDS Integers, Sequences, FiniteSets, TLC

\* ------------------------------------------------------------------ bounds
\* longest raw URL list given on the command line
MaxUrls == 7
\* how many empty batches a non-advancing loop is followed for
MaxSpin == 2

\* --------------------------------------------------------------- constants
\* .substring(0, 100)
MaxName == 100
\* parseInt(values.concurrent, 10) || 3
DefaultConcurrent == 3

\* ----------------------------------------------------------------- strings
Min(a, b) == IF a < b THEN a ELSE b
Max(a, b) == IF a > b THEN a ELSE b

Rep(c, n) == [k \in 1..n |-> c]

HTTP == <<"h", "t", "t", "p", ":", "/", "/">>
HTTPS == <<"h", "t", "t", "p", "s", ":", "/", "/">>

Lower == {"a", "b", "c", "d", "e", "f", "g", "h", "i", "j", "k", "l", "m",
          "n", "o", "p", "q", "r", "s", "t", "u", "v", "w", "x", "y", "z"}
Upper == {"A", "B", "C", "D", "E", "F", "G", "H", "I", "J", "K", "L", "M",
          "N", "O", "P", "Q", "R", "S", "T", "U", "V", "W", "X", "Y", "Z"}
Digits == {"0", "1", "2", "3", "4", "5", "6", "7", "8", "9"}
\* the character class [a-zA-Z0-9]
Alnum == Lower \cup Upper \cup Digits

\* String.prototype.startsWith
StartsWith(s, p) == Len(s) >= Len(p) /\ SubSeq(s, 1, Len(p)) = p

\* ------------------------------------------------------- URL set builder
\* [...new Set(list)]: the first occurrence of every value, in input order
RECURSIVE SetSpread(_, _)
SetSpread(list, acc) ==
    IF list = <<>> THEN acc
    ELSE IF \E k \in 1..Len(acc) : acc[k] = Head(list)
         THEN SetSpread(Tail(list), acc)
         ELSE SetSpread(Tail(list), Append(acc, Head(list)))

\* the map callback: add https:// if the protocol is missing
AddScheme(url) ==
    IF ~StartsWith(url, HTTP) /\ ~StartsWith(url, HTTPS)
    THEN HTTPS \o url
    ELSE url

\* urlsToAudit = [...new Set(urlsToAudit)].map(url => ...)
BuildTargets(list) ==
    LET uniq == SetSpread(list, <<>>)
    IN [k \in 1..Len(uniq) |-> AddScheme(uniq[k])]

\* ---------------------------------------------------------- output naming
\* .replace(/^https?:\/\//, '')
StripScheme(url) ==
    IF StartsWith(url, HTTPS) THEN SubSeq(url, Len(HTTPS) + 1, Len(url))
    ELSE IF StartsWith(url, HTTP) THEN SubSeq(url, Len(HTTP) + 1, Len(url))
    ELSE url

\* .replace(/[^a-zA-Z0-9]/g, '_')
ReplaceNonAlnum(s) == [k \in 1..Len(s) |-> IF s[k] \in Alnum THEN s[k] ELSE "_"]

\* .substring(0, 100)
Truncate(s) == SubSeq(s, 1, Min(Len(s), MaxName))

SanitizedUrl(url) == Truncate(ReplaceNonAlnum(StripScheme(url)))

\* resolve(outputDir, `${sanitizedUrl}.${values.format}`), relative to outputDir
OutputPath(url, format) == SanitizedUrl(url) \o <<".">> \o format

\* ------------------------------------------------------- --concurrent
IsSpace(c) == c \in {" "}

RECURSIVE SkipSpaces(_)
SkipSpaces(s) ==
    IF s # <<>> /\ IsSpace(Head(s)) THEN SkipSpaces(Tail(s)) ELSE s

DigitVal(c) ==
    CASE c = "0" -> 0 [] c = "1" -> 1 [] c = "2" -> 2 [] c = "3" -> 3
      [] c = "4" -> 4 [] c = "5" -> 5 [] c = "6" -> 6 [] c = "7" -> 7
      [] c = "8" -> 8 [] c = "9" -> 9

\* the longest prefix of decimal digits, as [n |-> how many, val |-> value]
RECURSIVE DigitPrefix(_, _, _)
DigitPrefix(s, n, val) ==
    IF s # <<>> /\ Head(s) \in Digits
    THEN DigitPrefix(Tail(s), n + 1, 10 * val + DigitVal(Head(s)))
    ELSE [n |-> n, val |-> val]

\* parseInt(s, 10): leading white space, an optional sign, then digits;
\* NaN when no digit follows
ParseInt(s) ==
    LET t == SkipSpaces(s)
        neg == t # <<>> /\ Head(t) = "-"
        signed == t # <<>> /\ Head(t) \in {"-", "+"}
        d == DigitPrefix(IF signed THEN Tail(t) ELSE t, 0, 0)
    IN IF d.n = 0 THEN [nan |-> TRUE, val |-> 0]
       ELSE [nan |-> FALSE, val |-> IF neg THEN 0 - d.val ELSE d.val]

\* parseInt(values.concurrent, 10) || 3 : NaN and 0 are falsy
ConcurrentAudits(s) ==
    LET p == ParseInt(s)
    IN IF p.nan \/ p.val = 0 THEN DefaultConcurrent ELSE p.val

\* ------------------------------------------------------------ inputs
LongA == Rep("x", MaxName) \o <<"y">>
LongB == Rep("x", MaxName) \o <<"z">>

\* raw URLs a command line may give, in the order they are given
UrlPool == << <<"a", ".", "c">>,
              <<"a", ".", "c">>,
              HTTPS \o <<"a", ".", "c">>,
              HTTP \o <<"a", ".", "c">>,
              <<"a", "_", "c">>,
              <<"b">>,
              HTTP \o <<"b", "/", "1">>,
              LongA,
              LongB >>

\* the runs of at most MaxUrls consecutive entries of UrlPool, the empty
\* list among them
RawLists ==
    { SubSeq(UrlPool, r[1], r[2]) :
        r \in { q \in (1..Len(UrlPool)) \X (0..Len(UrlPool)) :
                  q[2] >= q[1] - 1 /\ q[2] - q[1] + 1 <= MaxUrls } }

\* values of --concurrent: the default, small sizes, zero, a negative
\* number, a word, a number followed by a letter
ConcurrentPool == { <<"3">>, <<"1">>, <<"2">>, <<"0">>, <<"-", "1">>,
                    <<"x">>, <<"2", "x">> }

FormatPool == { <<"j", "s", "o", "n">>, <<"h", "t", "m", "l">> }

\* what one auditor run does: spawnSync throws, or the child exits with a
\* code and has or has not written the report
Outcomes ==
    { [threw |-> TRUE, exitCode |-> 0, fileCreated |-> FALSE],
      [threw |-> FALSE, exitCode |-> 1, fileCreated |-> FALSE],
      [threw |-> FALSE, exitCode |-> 0, fileCreated |-> FALSE],
      [threw |-> FALSE, exitCode |-> 0, fileCreated |-> TRUE] }

\* no auditor has run yet
NotRun == [threw |-> FALSE, exitCode |-> -1, fileCreated |-> FALSE]

\* ------------------------------------------------------------- state
VARIABLES
    pc,            \* where the script is
    rawUrls,       \* urlsToAudit as read from --urls and --url-file
    concurrent,    \* values.concurrent
    format,        \* values.format
    urlsToAudit,   \* the targets
    browser,       \* TRUE once puppeteer.connect / launch has returned
    closeCalls,    \* how often browser.close() was called
    chunkSize,     \* concurrentAudits
    i,             \* the loop index of processUrlsInChunks
    chunk,         \* the current slice
    promises,      \* the results of the current chunk.map, in call order
    results,       \* results of processUrlsInChunks
    windows,       \* the size of every chunk taken so far
    invs,          \* every auditor run: its window, its url, whether it exited
    summary,       \* the printed audit summary, <<>> until printed
    exitCode,      \* -1 while the process runs
    auditor,       \* what the auditor run that returned last did
    spins          \* consecutive empty chunks

vars == <<pc, rawUrls, concurrent, format, urlsToAudit, browser, closeCalls,
          chunkSize, i, chunk, promises, results, windows, invs, summary,
          exitCode, auditor, spins>>

config == <<rawUrls, concurrent, format>>
batch == <<chunkSize, i, chunk, promises, results, windows, invs, auditor,
          spins>>

Init ==
    /\ pc = "start"
    /\ rawUrls \in RawLists
    /\ concurrent \in ConcurrentPool
    /\ format \in FormatPool
    /\ urlsToAudit = <<>>
    /\ browser = FALSE
    /\ closeCalls = 0
    /\ chunkSize = 0
    /\ i = 0
    /\ chunk = <<>>
    /\ promises = <<>>
    /\ results = <<>>
    /\ windows = <<>>
    /\ invs = <<>>
    /\ summary = <<>>
    /\ exitCode = -1
    /\ auditor = NotRun
    /\ spins = 0

\* process.exit(code): the process ends at once; no finally block runs
ProcessExit(code) ==
    /\ pc' = "exited"
    /\ exitCode' = code

\* ---------------------------------------------------- Audit Invoker
\* Bun.file(outputPath).exists(): a Promise of the answer, not the answer
FileExists(created) == [promise |-> TRUE, resolvesTo |-> created]

\* !x for an object x: every object, a Promise included, is truthy
Not(x) == ~x.promise

\* !Bun.file(outputPath).exists()
OutputMissing(created) == Not(FileExists(created))

Failed(url, error) ==
    [url |-> url, success |-> FALSE, outputPath |-> <<>>, error |-> error]

\* what runLighthouseForUrl returns for one outcome of the auditor
AuditResult(url, fmt, o) ==
    IF o.threw THEN Failed(url, "exception")
    ELSE IF o.exitCode # 0 THEN Failed(url, "stderr")
    ELSE IF OutputMissing(o.fileCreated)
         THEN Failed(url, "Output file not created")
    ELSE [url |-> url, success |-> TRUE, outputPath |-> OutputPath(url, fmt),
          error |-> ""]

\* mutant: the child is spawned without waiting for its exit
SpawnNoWait(log, k) == log

\* spawnSync returns only when the child has exited
SpawnSyncExit(log, k) == [log EXCEPT ![k].done = TRUE]

\* ----------------------------------------------------- Batch Runner
\* Array.prototype.slice(start, end), negative indices counted from the end
JsSlice(s, start, end) ==
    LET n == Len(s)
        from == IF start < 0 THEN Max(n + start, 0) ELSE Min(start, n)
        to == IF end < 0 THEN Max(n + end, 0) ELSE Min(end, n)
    IN SubSeq(s, from + 1, to)

\* mutant: the end of the slice is the size, not i + size
ChunkAbsoluteEnd(urls, idx, size) == JsSlice(urls, idx, size)

\* urls.slice(i, i + chunkSize)
Chunk(urls, idx, size) == JsSlice(urls, idx, idx + size)

\* mutant: a batch is put in front of the earlier ones
PushFront(res, batchResults) == batchResults \o res

\* results.push(...batchResults)
PushAll(res, batchResults) == res \o batchResults

\* --------------------------------------------------------- actions
\* lines 103-115: the target list; no target ends the process
BuildUrlSet ==
    /\ pc = "start"
    /\ urlsToAudit' = BuildTargets(rawUrls)
    /\ IF Len(urlsToAudit') = 0
       THEN ProcessExit(1)
       ELSE pc' = "outdir" /\ UNCHANGED exitCode
    /\ UNCHANGED <<config, browser, closeCalls, batch, summary>>

\* lines 119-158: the output directory is created or probed for writing
EnsureOutputDir ==
    /\ pc = "outdir"
    /\ \E writable \in BOOLEAN :
         IF writable
         THEN pc' = "acquire" /\ UNCHANGED exitCode
         ELSE ProcessExit(1)
    /\ UNCHANGED <<config, urlsToAudit, browser, closeCalls, batch, summary>>

\* lines 284-329: connect to the given endpoint, or find and launch Chrome
AcquireBrowser ==
    /\ pc = "acquire"
    /\ \E endpointGiven \in BOOLEAN, chromeFound \in BOOLEAN, ok \in BOOLEAN :
         IF ~endpointGiven /\ ~chromeFound
         THEN ProcessExit(1) /\ UNCHANGED browser
         ELSE IF ok
              THEN browser' = TRUE /\ pc' = "version" /\ UNCHANGED exitCode
              ELSE ProcessExit(1) /\ UNCHANGED browser
    /\ UNCHANGED <<config, urlsToAudit, closeCalls, batch, summary>>

\* lines 331-339: browser.version(), the window size, the call of
\* processUrlsInChunks
StartBatch ==
    /\ pc = "version"
    /\ \E ok \in BOOLEAN :
         IF ok
         THEN /\ chunkSize' = ConcurrentAudits(concurrent)
              /\ i' = 0
              /\ results' = <<>>
              /\ pc' = "loop"
              /\ UNCHANGED exitCode
         ELSE ProcessExit(1) /\ UNCHANGED <<chunkSize, i, results>>
    /\ UNCHANGED <<config, urlsToAudit, browser, closeCalls, chunk, promises,
                   windows, invs, summary, auditor, spins>>

\* lines 264-266: the loop test holds and the next chunk is sliced
TakeChunk ==
    /\ pc = "loop"
    /\ i < Len(urlsToAudit)
    /\ spins < MaxSpin
    /\ chunk' = Chunk(urlsToAudit, i, chunkSize)
    /\ windows' = Append(windows, Len(chunk'))
    /\ spins' = IF chunk' = <<>> THEN spins + 1 ELSE 0
    /\ promises' = <<>>
    /\ pc' = "map"
    /\ UNCHANGED <<config, urlsToAudit, browser, closeCalls, chunkSize, i,
                   results, invs, summary, exitCode, auditor>>

\* lines 192-237: chunk.map calls runLighthouseForUrl for the next url,
\* which runs up to its spawnSync
SpawnAuditor ==
    /\ pc = "map"
    /\ Len(promises) < Len(chunk)
    /\ invs' = Append(invs, [win |-> Len(windows),
                            url |-> chunk[Len(promises) + 1],
                            done |-> FALSE])
    /\ pc' = "spawned"
    /\ UNCHANGED <<config, urlsToAudit, browser, closeCalls, chunkSize, i,
                   chunk, promises, results, windows, summary, exitCode, auditor,
                   spins>>

\* lines 229-257: spawnSync returns or throws and runLighthouseForUrl returns
AuditorReturn ==
    /\ pc = "spawned"
    /\ \E o \in Outcomes :
         /\ auditor' = o
         /\ promises' = Append(promises,
                               AuditResult(chunk[Len(promises) + 1], format, o))
    /\ invs' = SpawnSyncExit(invs, Len(invs))
    /\ pc' = "map"
    /\ UNCHANGED <<config, urlsToAudit, browser, closeCalls, chunkSize, i,
                   chunk, results, windows, summary, exitCode, spins>>

\* lines 269-271 and the loop step: await Promise.all, push, i += chunkSize
AwaitAll ==
    /\ pc = "map"
    /\ Len(promises) = Len(chunk)
    /\ results' = PushAll(results, promises)
    /\ i' = i + chunkSize
    /\ chunk' = <<>>
    /\ promises' = <<>>
    /\ pc' = "loop"
    /\ UNCHANGED <<config, urlsToAudit, browser, closeCalls, chunkSize,
                   windows, invs, summary, exitCode, auditor, spins>>

\* lines 264, 274: the loop test fails and processUrlsInChunks returns
ReturnResults ==
    /\ pc = "loop"
    /\ ~(i < Len(urlsToAudit))
    /\ pc' = "close"
    /\ UNCHANGED <<config, urlsToAudit, browser, closeCalls, batch, summary,
                   exitCode>>

\* line 343, with the catch of lines 370-373 when close() rejects
CloseAfterBatch ==
    /\ pc = "close"
    /\ closeCalls' = closeCalls + 1
    /\ \E ok \in BOOLEAN :
         IF ok
         THEN pc' = "summary" /\ UNCHANGED exitCode
         ELSE ProcessExit(1)
    /\ UNCHANGED <<config, urlsToAudit, browser, batch, summary>>

Count(res, ok) == Cardinality({k \in 1..Len(res) : res[k].success = ok})

\* lines 345-368: the audit summary
Summarize ==
    /\ pc = "summary"
    /\ summary' = << [total |-> Len(results),
                      successful |-> Count(results, TRUE),
                      failed |-> Len(results) - Count(results, TRUE)] >>
    /\ pc' = "finally"
    /\ UNCHANGED <<config, urlsToAudit, browser, closeCalls, batch, exitCode>>

\* lines 374-384: the finally block closes the browser again; a rejection is
\* logged; the script ends and the process exits 0
FinallyClose ==
    /\ pc = "finally"
    /\ closeCalls' = IF browser THEN closeCalls + 1 ELSE closeCalls
    /\ pc' = "ended"
    /\ exitCode' = 0
    /\ UNCHANGED <<config, urlsToAudit, browser, batch, summary>>

Next ==
    \/ BuildUrlSet
    \/ EnsureOutputDir
    \/ AcquireBrowser
    \/ StartBatch
    \/ TakeChunk
    \/ SpawnAuditor
    \/ AuditorReturn
    \/ AwaitAll
    \/ ReturnResults
    \/ CloseAfterBatch
    \/ Summarize
    \/ FinallyClose

Spec == Init /\ [][Next]_vars

\* ---------------------------------------------- the single-URL runner
\* index.ts audits values.url alone: rawUrls holds that one URL and there is
\* no --concurrent option
InitSingle ==
    /\ pc = "s_connect"
    /\ rawUrls \in { <<UrlPool[k]>> : k \in DOMAIN UrlPool }
    /\ concurrent = <<>>
    /\ format \in FormatPool
    /\ urlsToAudit = <<>>
    /\ browser = FALSE
    /\ closeCalls = 0
    /\ chunkSize = 0
    /\ i = 0
    /\ chunk = <<>>
    /\ promises = <<>>
    /\ results = <<>>
    /\ windows = <<>>
    /\ invs = <<>>
    /\ summary = <<>>
    /\ exitCode = -1
    /\ auditor = NotRun
    /\ spins = 0

\* index.ts lines 64-71, 130-134: puppeteer.connect
SingleConnect ==
    /\ pc = "s_connect"
    /\ \E ok \in BOOLEAN :
         IF ok
         THEN browser' = TRUE /\ pc' = "s_page" /\ UNCHANGED exitCode
         ELSE ProcessExit(1) /\ UNCHANGED browser
    /\ UNCHANGED <<config, urlsToAudit, closeCalls, batch, summary>>

\* index.ts lines 73-81: browser.version() and browser.newPage()
SingleNewPage ==
    /\ pc = "s_page"
    /\ \E ok \in BOOLEAN :
         IF ok
         THEN pc' = "s_audit" /\ UNCHANGED exitCode
         ELSE ProcessExit(1)
    /\ UNCHANGED <<config, urlsToAudit, browser, closeCalls, batch, summary>>

\* index.ts lines 102-115: spawnSync; a non-zero exit code ends the process
SingleAudit ==
    /\ pc = "s_audit"
    /\ \E o \in Outcomes :
         /\ auditor' = o
         /\ IF o.threw THEN ProcessExit(1)
            ELSE IF o.exitCode # 0 THEN ProcessExit(o.exitCode)
            ELSE pc' = "s_close" /\ UNCHANGED exitCode
    /\ UNCHANGED <<config, urlsToAudit, browser, closeCalls, chunkSize, i,
                   chunk, promises, results, windows, invs, summary, spins>>

\* index.ts lines 119-128: browser.close(), then the report is looked for
SingleCloseAndVerify ==
    /\ pc = "s_close"
    /\ closeCalls' = closeCalls + 1
    /\ \E ok \in BOOLEAN :
         IF ~ok THEN ProcessExit(1)
         ELSE IF OutputMissing(auditor.fileCreated) THEN ProcessExit(1)
         ELSE pc' = "ended" /\ exitCode' = 0
    /\ UNCHANGED <<config, urlsToAudit, browser, batch, summary>>

NextSingle ==
    \/ SingleConnect
    \/ SingleNewPage
    \/ SingleAudit
    \/ SingleCloseAndVerify

SpecSingle == InitSingle /\ [][NextSingle]_vars

\* ------------------------------------------------------ properties
Terminated == pc \in {"exited", "ended"}

\* processUrlsInChunks has returned
Returned == pc \in {"close", "summary", "finally", "ended"}

InFlight == {k \in DOMAIN invs : ~invs[k].done}

Ceil(n, w) == (n + w - 1) \div w

\* C1: whenever a browser session was acquired, browser.close() has been
\* called exactly once by the time the process ends, on every exit path.
C1_CloseExactlyOnce ==
    (Terminated /\ browser) => closeCalls = 1

\* C2: with a positive window size, the results pushed so far are the
\* results of the first targets in target order, and when
\* processUrlsInChunks has returned there is exactly one result per target,
\* result k carrying the url of target k, whatever each invocation did.
C2_OneResultPerTargetInOrder ==
    chunkSize > 0 =>
        /\ Len(results) <= Len(urlsToAudit)
        /\ \A k \in 1..Len(results) : results[k].url = urlsToAudit[k]
        /\ Returned => Len(results) = Len(urlsToAudit)

\* seven targets in windows of three, the first invocation threw, the
\* second succeeded, the fifth exited non-zero, all results returned
C2_Witness ==
    /\ pc = "close"
    /\ chunkSize = 3
    /\ Len(urlsToAudit) = 7
    /\ Len(results) = 7
    /\ results[1].error = "exception"
    /\ results[2].success
    /\ results[5].error = "stderr"

\* C3: with a positive window size w and n targets, every window taken has
\* w targets except a smaller last one, ceil(n/w) windows are taken in all,
\* invocation k is for target k and belongs to window ceil(k/w), and an
\* invocation of a later window exists only when every invocation of every
\* earlier window has completed.
C3_SequentialWindows ==
    chunkSize > 0 =>
        LET n == Len(urlsToAudit)
            w == chunkSize
        IN /\ \A v \in 1..Len(windows) :
                 /\ windows[v] = Min(w, n - (v - 1) * w)
                 /\ windows[v] >= 1
           /\ Len(windows) <= Ceil(n, w)
           /\ Returned => Len(windows) = Ceil(n, w) /\ Len(invs) = n
           /\ \A k \in DOMAIN invs :
                 /\ k <= n
                 /\ invs[k].url = urlsToAudit[k]
                 /\ invs[k].win = Ceil(k, w)
           /\ \A a, b \in DOMAIN invs :
                 invs[a].win < invs[b].win => invs[a].done

\* seven targets, w = 3: windows of 3, 3 and 1, the second window holding a
\* failed invocation, the one invocation of the third window in flight
C3_Witness ==
    /\ chunkSize = 3
    /\ Len(urlsToAudit) = 7
    /\ windows = <<3, 3, 1>>
    /\ pc = "spawned"
    /\ Len(invs) = 7
    /\ ~results[4].success

\* C4: with a positive window size w, at most w auditor invocations are
\* started and not yet completed.
C4_AtMostWindowInFlight ==
    chunkSize > 0 => Cardinality(InFlight) <= chunkSize

\* more targets than the window holds, an auditor running in the second
\* window after the first window's auditors have exited
C4_Witness ==
    /\ chunkSize = 2
    /\ Len(urlsToAudit) > 2
    /\ Len(windows) = 2
    /\ Cardinality(InFlight) = 1
    /\ Len(invs) = 4

\* C5: in a window of two or more targets every invocation of the window is
\* started before any invocation of the window has completed.
C5_WindowRunsConcurrently ==
    chunkSize > 0 =>
        \A k \in DOMAIN invs :
            (invs[k].done /\ windows[invs[k].win] >= 2) =>
                Cardinality({m \in DOMAIN invs : invs[m].win = invs[k].win})
                    = windows[invs[k].win]

\* C6: the target list holds no URL twice.
C6_NoDuplicateTargets ==
    \A a, b \in DOMAIN urlsToAudit :
        a # b => urlsToAudit[a] # urlsToAudit[b]

\* C7: a --concurrent value that is not a number, or is zero or negative,
\* makes the batch run with the default window size.
C7_FallsBackToDefault ==
    (chunkSize # 0 /\ (ParseInt(concurrent).nan \/ ParseInt(concurrent).val <= 0))
        => chunkSize = DefaultConcurrent

\* C8: an auditor that exits 0 without writing the report gives a failed
\* result with the error 'Output file not created'.
C8_MissingOutputFails ==
    (pc = "map" /\ promises # <<>> /\ ~auditor.threw /\ auditor.exitCode = 0
        /\ ~auditor.fileCreated)
        => /\ ~promises[Len(promises)].success
           /\ promises[Len(promises)].error = "Output file not created"

\* C9: once the batch has been started, the process ends only with the
\* summary printed and exit code 0.
C9_SummaryOnceSetupSucceeded ==
    (Terminated /\ chunkSize # 0) => (summary # <<>> /\ exitCode = 0)

\* C10: two invocations of one run for different targets never compute the
\* same output path.
C10_DistinctTargetsDistinctPaths ==
    \A a, b \in DOMAIN invs :
        invs[a].url # invs[b].url
            => OutputPath(invs[a].url, format) # OutputPath(invs[b].url, format)

====
